---- MODULE Spec2Model ----
(***************************************************************************)
(* Heartbeat monitor (cf-ping): the POST /hello handler and the scheduled  *)
(* sweep of src/src/index.ts, run against the D1 table server_status.      *)
(* Every await on env.DB is a suspension point, so the handlers are split  *)
(* at their awaits: capture of the time, SELECT, then UPDATE/INSERT with   *)
(* the synchronous code that follows it (waitUntil, response).             *)
(***************************************************************************)
EXTENDS Integers, Sequences, FiniteSets, TLC

\* ---------------------------------------------------------------- bounds

\* Largest value of the wall clock (seconds) the model explores.
MaxTime == 72

\* The wall clock advances by one of these amounts (seconds).
ClockSteps == {70, 71}

\* Largest silence threshold (seconds) the comparison is tried with.
MaxThreshold == 90

\* Requests the worker receives, and cron firings, over a run.
MaxRequests == 2
MaxPasses == 2

\* Invocations of the fetch handler, and of the scheduled handler, that may
\* be in flight at the same time.
Pings == {1, 2}
Sweeps == {1, 2}

\* ------------------------------------------------------- program constants

\* The silence threshold of the sweep.
alertThresholdSeconds == 70

\* The alertThresholdSeconds of the /status command.
statusAlertThresholdSeconds == 90

\* env.SERVERS after split(',').map(trim).filter(nonempty)
SERVERS == <<"a", "b">>

\* env.ACCESS_TOKEN
ACCESS_TOKEN == "secret"

\* The values of the query parameter server_name a request may carry: ""
\* is the missing parameter, "x" a name outside the allow-list. Server "b"
\* is configured and silent: only the sweep ever touches its row.
RequestNames == {"", "a", "x"}

\* The Authorization headers a request may carry.
NoHeader == [scheme |-> "", token |-> ""]
AuthHeaders ==
  { NoHeader,
    [scheme |-> "Basic", token |-> ACCESS_TOKEN],
    [scheme |-> "Bearer", token |-> "wrong"],
    [scheme |-> "Bearer", token |-> ACCESS_TOKEN] }

\* ------------------------------------------------------------------ state

VARIABLES
  clock,          \* Math.floor(Date.now() / 1000)
  server_status,  \* the D1 table: server name -> row, or NULL when no row
  ping,           \* per fetch invocation: pc and the locals of handleHelloPost
  response,       \* the status of the Response the step just taken returned (0: none)
  waitUntil,      \* the message the step just taken handed to ctx.waitUntil
  telegram,       \* what became of that message in sendTelegramMessage
  request,        \* what the step just taken read of the request it received
  status,         \* the /status command: pc and the locals of its handler
  last,           \* the handler run the step just taken completed: what it had
                  \* read, the row before and after its statement, whether it threw
  sweep,          \* per scheduled invocation: pc and the locals of scheduled
  requests,       \* fetch invocations so far
  passes          \* scheduled invocations so far

vars == <<clock, server_status, ping, response, waitUntil, telegram, request, status, last,
          sweep, requests, passes>>

\* `first()` of a SELECT that matches no row.
NULL == [last_hello_timestamp |-> -1, last_state |-> "null", last_state_change_timestamp |-> -1]

ServerStatus(hello, state, change) ==
  [last_hello_timestamp |-> hello, last_state |-> state, last_state_change_timestamp |-> change]

ServerNames == {SERVERS[k] : k \in 1..Len(SERVERS)}

IdlePing == [pc |-> "idle", serverName |-> "", currentTime |-> 0, serverInfo |-> NULL]
IdleSweep == [pc |-> "idle", currentTime |-> 0, i |-> 0, serverInfo |-> NULL]

\* ------------------------------------------------------- pure computations

\* Math.round(downTimeSeconds / 60) for the non-negative values it is used on.
downTimeMinutes(downTimeSeconds) == (downTimeSeconds + 30) \div 60

\* index.ts:63, `${downTimeSeconds}s` below a minute, `${downTimeMinutes}min` otherwise.
downTimeDuration(downTimeSeconds) ==
  IF downTimeSeconds < 60
    THEN [n |-> downTimeSeconds, unit |-> "s"]
    ELSE [n |-> downTimeMinutes(downTimeSeconds), unit |-> "min"]

\* Mutant: the downtime counted from the last ping of the row read.
downTimeSecondsSinceHello(currentTime, serverInfo) ==
  currentTime - serverInfo.last_hello_timestamp

\* index.ts:61, the downtime a recovery reports.
downTimeSeconds(currentTime, serverInfo) ==
  currentTime - serverInfo.last_state_change_timestamp

NoDetail == [n |-> 0, unit |-> ""]

\* No Response returned, no message handed to ctx.waitUntil.
NoResponse == 0
NoMessage == [kind |-> "", server |-> "", detail |-> NoDetail]

\* A run that threw: what it had read is not recorded.
Threw(by, serverName, now, before) ==
  [by |-> by, server |-> serverName, now |-> now, read |-> NULL, before |-> before,
   after |-> before, threw |-> TRUE]

\* The step just taken completed no handler run.
NoRun ==
  [by |-> "", server |-> "", now |-> 0, read |-> NULL, before |-> NULL, after |-> NULL,
   threw |-> FALSE]

\* The run of handler `by` for serverName with currentTime `now`, which had
\* read row `read`, turned the stored row `before` into `after`.
Run(by, serverName, now, read, before, after) ==
  [by |-> by, server |-> serverName, now |-> now, read |-> read, before |-> before,
   after |-> after, threw |-> FALSE]

\* The query parameter of a request the auth middleware turned away: the
\* router never reads it.
Unread == "-"

\* The step just taken received no request.
NoRequest == [authHeader |-> NoHeader, server_name |-> Unread]

\* What the middlewares read of a request.
Request(authHeader, server_name) == [authHeader |-> authHeader, server_name |-> server_name]

\* What the fetch to api.telegram.org may do: answer ok, answer an error
\* status, or throw.
TelegramOutcomes == {"ok", "notOk", "throws"}

\* No message, no delivery.
NoDelivery == "none"

\* telegram.ts:3-30: what becomes of the message. Both failures are logged
\* and the promise resolves to a Response that is not ok; the function
\* catches what fetch throws and never rejects.
sendTelegramMessage(outcome) ==
  IF outcome = "throws" THEN "failed"
  ELSE IF outcome = "notOk" THEN "failed"
  ELSE "sent"

\* What the promise handed to ctx.waitUntil can come to, over the outcomes
\* of the fetch.
Deliveries == {sendTelegramMessage(outcome) : outcome \in TelegramOutcomes}

\* Mutant: the handler awaits the promise and answers 500 when the message
\* was not delivered.
afterWaitUntilAwaited(result, delivery) == IF delivery = "failed" THEN 500 ELSE result

\* index.ts:78-80, 106-108: the promise handed to ctx.waitUntil is not
\* awaited; the handler returns the Response it was about to return,
\* whatever becomes of the message.
afterWaitUntil(result, delivery) == result

\* The four notification texts.
BackUpMessage(serverName, duration) ==
  [kind |-> "backUp", server |-> serverName, detail |-> duration]
FirstPingMessage(serverName) ==
  [kind |-> "firstPing", server |-> serverName, detail |-> NoDetail]
DownMessage(serverName) ==
  [kind |-> "down", server |-> serverName, detail |-> [n |-> alertThresholdSeconds, unit |-> "s"]]
NotReportedMessage(serverName) ==
  [kind |-> "notReported", server |-> serverName, detail |-> NoDetail]

\* Mutant: the INSERT leaves last_state_change_timestamp to its DEFAULT 0.
newServerInfoDefaultChange(currentTime) == ServerStatus(currentTime, "up", 0)

\* index.ts:89-94, the row of a server that sends its first ping.
newServerInfo(currentTime) == ServerStatus(currentTime, "up", currentTime)

\* Mutant: last_hello_timestamp bound to currentTime instead of 0.
notFoundServerInfoSeenNow(currentTime) == ServerStatus(currentTime, "down", currentTime)

\* index.ts:161, the row of a configured server the sweep does not find.
notFoundServerInfo(currentTime) == ServerStatus(0, "down", currentTime)

\* Mutant: >= for >.
overThresholdOrAt(age, threshold) == age >= threshold

\* index.ts:142, the comparison of an age with a threshold.
overThreshold(age, threshold) == age > threshold

\* Mutant: the operands of the age are swapped.
missedPingsNegativeAge(serverInfo, currentTime) ==
  /\ serverInfo.last_state = "up"
  /\ serverInfo.last_hello_timestamp - currentTime > alertThresholdSeconds

\* Mutant: the age alone is tested, whatever last_state is.
missedPingsAnyState(serverInfo, currentTime) ==
  currentTime - serverInfo.last_hello_timestamp > alertThresholdSeconds

\* Mutant: down at the threshold already (>= for >).
missedPingsAtThreshold(serverInfo, currentTime) ==
  /\ serverInfo.last_state = "up"
  /\ currentTime - serverInfo.last_hello_timestamp >= alertThresholdSeconds

\* index.ts:142, the sweep's down-detection predicate.
missedPings(serverInfo, currentTime) ==
  /\ serverInfo.last_state = "up"
  /\ overThreshold(currentTime - serverInfo.last_hello_timestamp, alertThresholdSeconds)

\* telegramBot.ts:77, the /status command's test of an 'up' row.
stale(serverInfo, currentTime) ==
  currentTime - serverInfo.last_hello_timestamp > statusAlertThresholdSeconds

\* telegramBot.ts:67-100, the state the report shows for the row read.
stateDetail(serverInfo, currentTime) ==
  IF serverInfo = NULL THEN "UNKNOWN"
  ELSE IF serverInfo.last_state = "up"
       THEN IF stale(serverInfo, currentTime) THEN "UP (Stale)" ELSE "UP"
       ELSE "DOWN"

\* The /status handler is not running.
IdleStatus ==
  [pc |-> "idle", currentTime |-> 0, i |-> 0, serverInfo |-> NULL, statusMessages |-> <<>>]

\* Mutant: any Bearer token passes.
authenticateRequestAnyBearer(authHeader) ==
  IF authHeader = NoHeader \/ authHeader.scheme # "Bearer" THEN 401
  ELSE 0

\* index.ts:13-23: the status of the rejection, 0 when the request passes.
authenticateRequest(authHeader) ==
  IF authHeader = NoHeader \/ authHeader.scheme # "Bearer" THEN 401
  ELSE IF authHeader.token # ACCESS_TOKEN THEN 401
  ELSE 0

\* index.ts:27-40: the status of the rejection, 0 when the name is allowed.
validateServerName(serverName) ==
  IF serverName = "" THEN 400
  ELSE IF serverName \notin ServerNames THEN 400
  ELSE 0

\* ------------------------------------------------------------ the D1 table

\* UPDATE server_status SET last_hello_timestamp, last_state, last_state_change_timestamp WHERE server_name
UpdateAll(table, serverName, hello, state, change) ==
  IF table[serverName] = NULL THEN table
  ELSE [table EXCEPT ![serverName] = ServerStatus(hello, state, change)]

\* Mutant: the refresh moves last_state_change_timestamp too.
UpdateHelloAndChange(table, serverName, hello) ==
  IF table[serverName] = NULL THEN table
  ELSE [table EXCEPT ![serverName].last_hello_timestamp = hello,
                     ![serverName].last_state_change_timestamp = hello]

\* UPDATE server_status SET last_hello_timestamp = ? WHERE server_name = ?
UpdateHello(table, serverName, hello) ==
  IF table[serverName] = NULL THEN table
  ELSE [table EXCEPT ![serverName].last_hello_timestamp = hello]

\* Mutant: the sweep's update sets last_state alone.
UpdateDownStateOnly(table, serverName, change) ==
  IF table[serverName] = NULL THEN table
  ELSE [table EXCEPT ![serverName].last_state = "down"]

\* UPDATE server_status SET last_state = 'down', last_state_change_timestamp = ? WHERE server_name = ?
UpdateDown(table, serverName, change) ==
  IF table[serverName] = NULL THEN table
  ELSE [table EXCEPT ![serverName].last_state = "down",
                     ![serverName].last_state_change_timestamp = change]

\* Mutant: server_name is no PRIMARY KEY, an INSERT never conflicts.
InsertNeverConflicts(table, serverName) == FALSE

\* INSERT INTO server_status: server_name is the PRIMARY KEY, so the
\* statement throws when a row of that name exists.
InsertConflicts(table, serverName) == table[serverName] # NULL

Insert(table, serverName, row) == [table EXCEPT ![serverName] = row]

\* ------------------------------------------------------------------- Init

Init ==
  /\ clock = 1
  /\ server_status = [n \in ServerNames |-> NULL]
  /\ ping = [p \in Pings |-> IdlePing]
  /\ response = NoResponse
  /\ waitUntil = NoMessage
  /\ telegram = NoDelivery
  /\ request = NoRequest
  /\ status = IdleStatus
  /\ last = NoRun
  /\ sweep = [s \in Sweeps |-> IdleSweep]
  /\ requests = 0
  /\ passes = 0

\* A step that returns no Response and hands nothing to ctx.waitUntil.
NoOutput ==
  /\ response' = NoResponse
  /\ waitUntil' = NoMessage
  /\ telegram' = NoDelivery
  /\ request' = NoRequest
  /\ last' = NoRun

\* The invocation slots are interchangeable: a new invocation takes the
\* first one that is free.
FirstIdle(pcs, k) ==
  /\ pcs[k].pc = "idle"
  /\ \A j \in DOMAIN pcs : j < k => pcs[j].pc # "idle"

\* ------------------------------------------------------------------ clock

Tick ==
  /\ \E d \in ClockSteps :
       /\ clock + d <= MaxTime
       /\ clock' = clock + d
  /\ NoOutput
  /\ UNCHANGED <<server_status, ping, sweep, requests, passes, status>>

\* ------------------------------------------------------------ POST /hello

\* router.post('/hello', authenticateRequest, validateServerName, handleHelloPost):
\* a middleware that returns a Response ends the request.
HelloRejected(p) ==
  /\ FirstIdle(ping, p)
  /\ requests < MaxRequests
  /\ \E authHeader \in AuthHeaders :
       LET auth == authenticateRequest(authHeader)
       IN IF auth # 0
            THEN /\ response' = auth
                 /\ request' = Request(authHeader, Unread)
            ELSE \E server_name \in RequestNames :
                   LET valid == validateServerName(server_name)
                   IN /\ valid # 0
                      /\ response' = valid
                      /\ request' = Request(authHeader, server_name)
  /\ waitUntil' = NoMessage
  /\ telegram' = NoDelivery
  /\ last' = NoRun
  /\ requests' = requests + 1
  /\ UNCHANGED <<clock, server_status, ping, sweep, passes, status>>

\* The request passes both middlewares; handleHelloPost runs to its first
\* await (index.ts:46-51) with currentTime captured.
HelloAccepted(p) ==
  /\ FirstIdle(ping, p)
  /\ requests < MaxRequests
  /\ \E authHeader \in AuthHeaders, server_name \in RequestNames :
       /\ authenticateRequest(authHeader) = 0
       /\ validateServerName(server_name) = 0
       /\ ping' = [ping EXCEPT ![p] =
            [pc |-> "select", serverName |-> server_name,
             currentTime |-> clock, serverInfo |-> NULL]]
       /\ request' = Request(authHeader, server_name)
  /\ response' = NoResponse
  /\ waitUntil' = NoMessage
  /\ telegram' = NoDelivery
  /\ last' = NoRun
  /\ requests' = requests + 1
  /\ UNCHANGED <<clock, server_status, sweep, passes, status>>

\* index.ts:51-53, the SELECT returns.
PingSelect(p) ==
  /\ ping[p].pc = "select"
  /\ ping' = [ping EXCEPT ![p].pc = "write",
                          ![p].serverInfo = server_status[ping[p].serverName]]
  /\ NoOutput
  /\ UNCHANGED <<clock, server_status, sweep, requests, passes, status>>

\* index.ts:60-80, the row read was 'down'.
PingRecovered(p) ==
  LET serverName == ping[p].serverName
      currentTime == ping[p].currentTime
      serverInfo == ping[p].serverInfo
  IN /\ ping[p].pc = "write"
     /\ serverInfo # NULL
     /\ serverInfo.last_state = "down"
     /\ server_status' = UpdateAll(server_status, serverName, currentTime, "up", currentTime)
     /\ waitUntil' = BackUpMessage(serverName,
                        downTimeDuration(downTimeSeconds(currentTime, serverInfo)))
     /\ telegram' \in Deliveries
     /\ response' = afterWaitUntil(200, telegram')
     /\ request' = NoRequest
     /\ last' = Run("ping", serverName, currentTime, serverInfo,
                    server_status[serverName], server_status'[serverName])
     /\ ping' = [ping EXCEPT ![p] = IdlePing]
     /\ UNCHANGED <<clock, sweep, requests, passes, status>>

\* Mutant: the refresh answers with the status of the creation.
PingRefreshedAs201(p) ==
  LET serverName == ping[p].serverName
      currentTime == ping[p].currentTime
      serverInfo == ping[p].serverInfo
  IN /\ ping[p].pc = "write"
     /\ serverInfo # NULL
     /\ serverInfo.last_state # "down"
     /\ server_status' = UpdateHello(server_status, serverName, currentTime)
     /\ response' = 201
     /\ waitUntil' = NoMessage
     /\ telegram' = NoDelivery
     /\ request' = NoRequest
     /\ last' = Run("ping", serverName, currentTime, serverInfo,
                    server_status[serverName], server_status'[serverName])
     /\ ping' = [ping EXCEPT ![p] = IdlePing]
     /\ UNCHANGED <<clock, sweep, requests, passes, status>>

\* index.ts:81-87, the row read was 'up'.
PingRefreshed(p) ==
  LET serverName == ping[p].serverName
      currentTime == ping[p].currentTime
      serverInfo == ping[p].serverInfo
  IN /\ ping[p].pc = "write"
     /\ serverInfo # NULL
     /\ serverInfo.last_state # "down"
     /\ server_status' = UpdateHello(server_status, serverName, currentTime)
     /\ response' = 200
     /\ waitUntil' = NoMessage
     /\ telegram' = NoDelivery
     /\ request' = NoRequest
     /\ last' = Run("ping", serverName, currentTime, serverInfo,
                    server_status[serverName], server_status'[serverName])
     /\ ping' = [ping EXCEPT ![p] = IdlePing]
     /\ UNCHANGED <<clock, sweep, requests, passes, status>>

\* index.ts:88-109, no row was read.
PingCreated(p) ==
  LET serverName == ping[p].serverName
      currentTime == ping[p].currentTime
  IN /\ ping[p].pc = "write"
     /\ ping[p].serverInfo = NULL
     /\ ~InsertConflicts(server_status, serverName)
     /\ server_status' = Insert(server_status, serverName, newServerInfo(currentTime))
     /\ waitUntil' = FirstPingMessage(serverName)
     /\ telegram' \in Deliveries
     /\ response' = afterWaitUntil(201, telegram')
     /\ request' = NoRequest
     /\ last' = Run("ping", serverName, currentTime, NULL,
                    server_status[serverName], server_status'[serverName])
     /\ ping' = [ping EXCEPT ![p] = IdlePing]
     /\ UNCHANGED <<clock, sweep, requests, passes, status>>

\* Mutant: the first-ping message is handed to ctx.waitUntil before the
\* INSERT, so it is out when the INSERT throws.
PingCatchAfterDispatch(p) ==
  /\ ping[p].pc \in {"select", "write"}
  /\ response' = 500
  /\ waitUntil' = IF ping[p].pc = "write" /\ ping[p].serverInfo = NULL
                    THEN FirstPingMessage(ping[p].serverName)
                    ELSE NoMessage
  /\ telegram' = IF ping[p].pc = "write" /\ ping[p].serverInfo = NULL
                   THEN "sent"
                   ELSE NoDelivery
  /\ request' = NoRequest
  /\ last' = Threw("ping", ping[p].serverName, ping[p].currentTime,
                   server_status[ping[p].serverName])
  /\ ping' = [ping EXCEPT ![p] = IdlePing]
  /\ UNCHANGED <<clock, server_status, sweep, requests, passes, status>>

\* index.ts:110-113, an await on env.DB throws: the SELECT, an UPDATE, or
\* the INSERT (always, when a row of that name exists by now).
PingCatch(p) ==
  /\ ping[p].pc \in {"select", "write"}
  /\ response' = 500
  /\ waitUntil' = NoMessage
  /\ telegram' = NoDelivery
  /\ request' = NoRequest
  /\ last' = Threw("ping", ping[p].serverName, ping[p].currentTime,
                   server_status[ping[p].serverName])
  /\ ping' = [ping EXCEPT ![p] = IdlePing]
  /\ UNCHANGED <<clock, server_status, sweep, requests, passes, status>>

\* ------------------------------------------------------------- scheduled

\* index.ts:128-134, the cron trigger fires; currentTime is captured once.
Scheduled(s) ==
  /\ FirstIdle(sweep, s)
  /\ passes < MaxPasses
  /\ sweep' = [sweep EXCEPT ![s] =
       [pc |-> "select", currentTime |-> clock, i |-> 1, serverInfo |-> NULL]]
  /\ response' = NoResponse
  /\ waitUntil' = NoMessage
  /\ telegram' = NoDelivery
  /\ request' = NoRequest
  /\ last' = NoRun
  /\ passes' = passes + 1
  /\ UNCHANGED <<clock, server_status, ping, requests, status>>

\* Mutant: currentTime is read again for each name.
NextServerReadsClock(sw) ==
  IF sw.i < Len(SERVERS)
    THEN [pc |-> "select", currentTime |-> clock, i |-> sw.i + 1, serverInfo |-> NULL]
    ELSE IdleSweep

\* The for loop moves to the next name, or the handler finishes (index.ts:173).
NextServer(sw) ==
  IF sw.i < Len(SERVERS)
    THEN [pc |-> "select", currentTime |-> sw.currentTime, i |-> sw.i + 1, serverInfo |-> NULL]
    ELSE IdleSweep

\* index.ts:136-138, the SELECT returns.
SweepSelect(s) ==
  /\ sweep[s].pc = "select"
  /\ sweep' = [sweep EXCEPT ![s].pc = "decide",
                            ![s].serverInfo = server_status[SERVERS[sweep[s].i]]]
  /\ NoOutput
  /\ UNCHANGED <<clock, server_status, ping, requests, passes, status>>

\* Mutant: the 'is DOWN' message is handed to ctx.waitUntil only after the
\* loop has moved on.
SweepDeclaredDownDispatchLater(s) ==
  LET serverName == SERVERS[sweep[s].i]
      currentTime == sweep[s].currentTime
      serverInfo == sweep[s].serverInfo
  IN /\ sweep[s].pc = "decide"
     /\ serverInfo # NULL
     /\ missedPings(serverInfo, currentTime)
     /\ server_status' = UpdateDown(server_status, serverName, currentTime)
     /\ waitUntil' = NoMessage
     /\ telegram' = NoDelivery
     /\ sweep' = [sweep EXCEPT ![s] = NextServer(sweep[s])]
     /\ response' = NoResponse
     /\ request' = NoRequest
     /\ last' = Run("sweep", serverName, currentTime, serverInfo,
                    server_status[serverName], server_status'[serverName])
     /\ UNCHANGED <<clock, ping, requests, passes, status>>

\* index.ts:142-152, the row read was 'up' and missed its pings.
SweepDeclaredDown(s) ==
  LET serverName == SERVERS[sweep[s].i]
      currentTime == sweep[s].currentTime
      serverInfo == sweep[s].serverInfo
  IN /\ sweep[s].pc = "decide"
     /\ serverInfo # NULL
     /\ missedPings(serverInfo, currentTime)
     /\ server_status' = UpdateDown(server_status, serverName, currentTime)
     /\ waitUntil' = DownMessage(serverName)
     /\ telegram' \in Deliveries
     /\ sweep' = [sweep EXCEPT ![s] = NextServer(sweep[s])]
     /\ response' = NoResponse
     /\ request' = NoRequest
     /\ last' = Run("sweep", serverName, currentTime, serverInfo,
                    server_status[serverName], server_status'[serverName])
     /\ UNCHANGED <<clock, ping, requests, passes, status>>

\* Mutant: the else branch is taken whatever the condition of line 142 says.
SweepNoOpUnguarded(s) ==
  LET serverName == SERVERS[sweep[s].i]
      currentTime == sweep[s].currentTime
      serverInfo == sweep[s].serverInfo
  IN /\ sweep[s].pc = "decide"
     /\ serverInfo # NULL
     /\ sweep' = [sweep EXCEPT ![s] = NextServer(sweep[s])]
     /\ response' = NoResponse
     /\ waitUntil' = NoMessage
     /\ telegram' = NoDelivery
     /\ request' = NoRequest
     /\ last' = Run("sweep", serverName, currentTime, serverInfo,
                    server_status[serverName], server_status[serverName])
     /\ UNCHANGED <<clock, server_status, ping, requests, passes, status>>

\* index.ts:153-154, the row read was 'down', or 'up' and recent.
SweepNoOp(s) ==
  LET serverName == SERVERS[sweep[s].i]
      currentTime == sweep[s].currentTime
      serverInfo == sweep[s].serverInfo
  IN /\ sweep[s].pc = "decide"
     /\ serverInfo # NULL
     /\ ~missedPings(serverInfo, currentTime)
     /\ sweep' = [sweep EXCEPT ![s] = NextServer(sweep[s])]
     /\ response' = NoResponse
     /\ waitUntil' = NoMessage
     /\ telegram' = NoDelivery
     /\ request' = NoRequest
     /\ last' = Run("sweep", serverName, currentTime, serverInfo,
                    server_status[serverName], server_status[serverName])
     /\ UNCHANGED <<clock, server_status, ping, requests, passes, status>>

\* index.ts:155-166, no row was read.
SweepOnboardedDown(s) ==
  LET serverName == SERVERS[sweep[s].i]
      currentTime == sweep[s].currentTime
  IN /\ sweep[s].pc = "decide"
     /\ sweep[s].serverInfo = NULL
     /\ ~InsertConflicts(server_status, serverName)
     /\ server_status' = Insert(server_status, serverName, notFoundServerInfo(currentTime))
     /\ waitUntil' = NotReportedMessage(serverName)
     /\ telegram' \in Deliveries
     /\ sweep' = [sweep EXCEPT ![s] = NextServer(sweep[s])]
     /\ response' = NoResponse
     /\ request' = NoRequest
     /\ last' = Run("sweep", serverName, currentTime, NULL,
                    server_status[serverName], server_status'[serverName])
     /\ UNCHANGED <<clock, ping, requests, passes, status>>

\* Mutant: the try/catch wraps the whole loop, a throw ends the pass.
SweepCatchAborts(s) ==
  /\ sweep[s].pc \in {"select", "decide"}
  /\ sweep' = [sweep EXCEPT ![s] = IdleSweep]
  /\ response' = NoResponse
  /\ waitUntil' = NoMessage
  /\ telegram' = NoDelivery
  /\ request' = NoRequest
  /\ last' = Threw("sweep", SERVERS[sweep[s].i], sweep[s].currentTime,
                   server_status[SERVERS[sweep[s].i]])
  /\ UNCHANGED <<clock, server_status, ping, requests, passes, status>>

\* index.ts:167-171, an await on env.DB throws inside the loop body: the
\* error is logged and the loop goes on.
SweepCatch(s) ==
  /\ sweep[s].pc \in {"select", "decide"}
  /\ sweep' = [sweep EXCEPT ![s] = NextServer(sweep[s])]
  /\ response' = NoResponse
  /\ waitUntil' = NoMessage
  /\ telegram' = NoDelivery
  /\ request' = NoRequest
  /\ last' = Threw("sweep", SERVERS[sweep[s].i], sweep[s].currentTime,
                   server_status[SERVERS[sweep[s].i]])
  /\ UNCHANGED <<clock, server_status, ping, requests, passes, status>>

\* ------------------------------------------------------------------- Next

\* One step of the fetch invocation p.
PingStep(p) ==
  \/ HelloRejected(p)
  \/ HelloAccepted(p)
  \/ PingSelect(p)
  \/ PingRecovered(p)
  \/ PingRefreshed(p)
  \/ PingCreated(p)
  \/ PingCatch(p)

\* One step of the scheduled invocation s.
SweepStep(s) ==
  \/ Scheduled(s)
  \/ SweepSelect(s)
  \/ SweepDeclaredDown(s)
  \/ SweepNoOp(s)
  \/ SweepOnboardedDown(s)
  \/ SweepCatch(s)

\* --------------------------------------------------------- /status command

\* telegramBot.ts:45-61, the command arrives from the configured chat; the
\* handler runs to its first await with currentTime captured.
StatusCommand ==
  /\ status.pc = "idle"
  /\ status' = [pc |-> "select", currentTime |-> clock, i |-> 1, serverInfo |-> NULL,
                statusMessages |-> <<>>]
  /\ NoOutput
  /\ UNCHANGED <<clock, server_status, ping, sweep, requests, passes>>

\* telegramBot.ts:61-100, the SELECT returns and the line of that server is
\* pushed; the loop goes on, or reaches ctx.reply.
StatusSelect ==
  LET serverName == SERVERS[status.i]
      serverInfo == server_status[serverName]
  IN /\ status.pc = "select"
     /\ status' = [status EXCEPT
          !.pc = IF status.i < Len(SERVERS) THEN "select" ELSE "reply",
          !.i = IF status.i < Len(SERVERS) THEN status.i + 1 ELSE status.i,
          !.serverInfo = serverInfo,
          !.statusMessages = Append(status.statusMessages,
             [server |-> serverName,
              stateDetail |-> stateDetail(serverInfo, status.currentTime)])]
     /\ NoOutput
     /\ UNCHANGED <<clock, server_status, ping, sweep, requests, passes>>

\* telegramBot.ts:102, the report is sent and the handler returns.
StatusReply ==
  /\ status.pc = "reply"
  /\ status' = IdleStatus
  /\ NoOutput
  /\ UNCHANGED <<clock, server_status, ping, sweep, requests, passes>>

\* telegramBot.ts:103-107, a SELECT throws: the apology is sent instead of
\* the report.
StatusCatch ==
  /\ status.pc = "select"
  /\ status' = IdleStatus
  /\ NoOutput
  /\ UNCHANGED <<clock, server_status, ping, sweep, requests, passes>>

\* One step of the /status command.
StatusStep ==
  \/ StatusCommand
  \/ StatusSelect
  \/ StatusReply
  \/ StatusCatch

Next ==
  \/ Tick
  \/ \E p \in Pings : PingStep(p)
  \/ \E s \in Sweeps : SweepStep(s)

Spec == Init /\ [][Next]_vars

\* wrangler.toml.example, crons = ["every minute"]: the cron trigger fires
\* again and again, for as long as the worker is deployed.
ScheduledEveryMinute(s) ==
  /\ FirstIdle(sweep, s)
  /\ sweep' = [sweep EXCEPT ![s] =
       [pc |-> "select", currentTime |-> clock, i |-> 1, serverInfo |-> NULL]]
  /\ NoOutput
  /\ UNCHANGED <<clock, server_status, ping, requests, passes, status>>

\* index.ts:159-161, 167-171: the INSERT of a name that a ping has stored in
\* the meantime violates the PRIMARY KEY; the only throw of a store that
\* answers.
SweepInsertConflict(s) ==
  /\ sweep[s].pc = "decide"
  /\ sweep[s].serverInfo = NULL
  /\ InsertConflicts(server_status, SERVERS[sweep[s].i])
  /\ SweepCatch(s)

\* One step of a scheduled invocation whose store statements succeed.
SweepStepNoThrow(s) ==
  \/ ScheduledEveryMinute(s)
  \/ SweepSelect(s)
  \/ SweepDeclaredDown(s)
  \/ SweepNoOp(s)
  \/ SweepOnboardedDown(s)
  \/ SweepInsertConflict(s)

\* The worker under a cron that keeps firing and a store that answers the
\* sweep.
NextLive ==
  \/ Tick
  \/ \E p \in Pings : PingStep(p)
  \/ \E s \in Sweeps : SweepStepNoThrow(s)

\* The clock advances while it can, and the scheduled handler never stops
\* for good: some pass takes its next step or, when a slot is free, the cron
\* trigger starts another one.
Fairness ==
  /\ WF_vars(Tick)
  /\ WF_vars(\E s \in Sweeps : SweepStepNoThrow(s))

SpecLive == Init /\ [][NextLive]_vars /\ Fairness

\* index.ts:136-138, 145-147, 159-161: each await on env.DB has no timeout
\* and no retry. A step of the pass s for a server other than the first: the
\* store answers for these.
AnsweredStep(s) ==
  /\ sweep[s].pc # "idle"
  /\ sweep[s].i > 1
  /\ SweepStepNoThrow(s)

\* The store answers for every server but the first, for which it may stay
\* silent for ever; the cron trigger keeps firing.
FairnessStoreHangs ==
  /\ WF_vars(Tick)
  /\ WF_vars(\E s \in Sweeps : ScheduledEveryMinute(s))
  /\ \A s \in Sweeps : WF_vars(AnsweredStep(s))

SpecStoreHangs == Init /\ [][NextLive]_vars /\ FairnessStoreHangs

\* The worker with the bot's /status command served as well.
NextWithStatus ==
  \/ Next
  \/ StatusStep

SpecWithStatus == Init /\ [][NextWithStatus]_vars

\* ----------------------------------------------------------------- claims
\* The claims read `last`: the run the step just taken completed, with the
\* row it had read, the row stored right before its statement and right
\* after it, and the currentTime it had captured.

PingRan == last.by = "ping" /\ ~last.threw
SweepRan == last.by = "sweep" /\ ~last.threw

\* The run just completed applied an UPDATE to a stored row.
Updated == (PingRan \/ SweepRan) /\ last.before # NULL /\ last.after # last.before

\* C1: every recovery ("back UP") notification goes with a stored DOWN->UP
\* transition: the row was 'down' right before the update that the
\* notification follows, so one outage is announced as over once.
C1_RecoveryNotifiedOnce ==
  waitUntil.kind = "backUp" => last.before.last_state = "down"

\* C2: the sweep writes 'down' only over a row whose stored
\* last_hello_timestamp is still older than the threshold at the write, and
\* the ping handler applies a refresh decided from an 'up' row only to a
\* row that is still 'up': neither writes over a change the other made
\* between its read and its write.
C2_ReadDecideWriteExclusive ==
  /\ (SweepRan /\ last.read.last_state = "up" /\ last.after # last.before)
        => last.now - last.before.last_hello_timestamp > alertThresholdSeconds
  /\ (PingRan /\ last.read.last_state = "up")
        => last.before.last_state = "up"

\* C3: every "is DOWN" notification goes with a stored UP->DOWN transition:
\* the row was 'up' right before the update the notification follows, also
\* when two sweep passes overlap.
C3_DownNotifiedOnce ==
  waitUntil.kind = "down" => last.before.last_state = "up"

C5_LastSeenNonDecreasing ==
  Updated => last.after.last_hello_timestamp >= last.before.last_hello_timestamp

\* C6 (as claimed): a ping that read a 'down' row leaves the row 'up' with
\* both timestamps its currentTime, and the recovery notification reports
\* currentTime minus the last_hello_timestamp of the row read.
C6_DowntimeSinceLastSeen ==
  (PingRan /\ last.read.last_state = "down") =>
    LET d == last.now - last.read.last_hello_timestamp
    IN /\ last.after = ServerStatus(last.now, "up", last.now)
       /\ waitUntil.kind = "backUp"
       /\ waitUntil.detail =
            IF d < 60 THEN [n |-> d, unit |-> "s"] ELSE [n |-> (d + 30) \div 60, unit |-> "min"]

\* C6 (amended): a ping that read a 'down' row leaves the row 'up' with both
\* timestamps its currentTime, answers 200, and the recovery notification
\* reports currentTime minus the last_state_change_timestamp of the row
\* read: in seconds below a minute, in minutes rounded to the nearest above.
C6_DowntimeSinceStateChange ==
  (PingRan /\ last.read.last_state = "down") =>
    LET d == last.now - last.read.last_state_change_timestamp
    IN /\ last.after = ServerStatus(last.now, "up", last.now)
       /\ response = 200
       /\ waitUntil.kind = "backUp"
       /\ waitUntil.server = last.server
       /\ waitUntil.detail =
            IF d < 60 THEN [n |-> d, unit |-> "s"] ELSE [n |-> (d + 30) \div 60, unit |-> "min"]

\* C6 witness: a recovery more than a minute after the down transition, of
\* a row whose two timestamps differ.
C6_Witness ==
  /\ PingRan
  /\ last.read.last_state = "down"
  /\ last.read.last_hello_timestamp # last.read.last_state_change_timestamp
  /\ last.now - last.read.last_state_change_timestamp >= 60
  /\ waitUntil.kind = "backUp"
  /\ waitUntil.detail.unit = "min"

\* C7: a sweep that read an 'up' row writes 'down' exactly when its
\* currentTime minus the row's last_hello_timestamp exceeds the threshold:
\* then the row is 'down' with last_state_change_timestamp = currentTime and
\* last_hello_timestamp as stored, and "is DOWN" is notified; otherwise the
\* row is as it was and nothing is notified.
C7_SweepDeclaresDownIffPastThreshold ==
  (SweepRan /\ last.read.last_state = "up") =>
    IF last.now - last.read.last_hello_timestamp > 70
      THEN /\ last.after.last_state = "down"
           /\ last.after.last_state_change_timestamp = last.now
           /\ last.after.last_hello_timestamp = last.before.last_hello_timestamp
           /\ waitUntil.kind = "down"
           /\ waitUntil.server = last.server
      ELSE /\ last.after = last.before
           /\ waitUntil = NoMessage

\* C7 witness: a row silent for 71 seconds is declared down.
C7_Witness ==
  /\ SweepRan
  /\ last.read.last_state = "up"
  /\ last.now - last.read.last_hello_timestamp = 71
  /\ last.after.last_state = "down"
  /\ waitUntil.kind = "down"

\* The boundary of C7: a row silent for exactly 70 seconds is left alone.
C7_BoundaryReached ==
  /\ SweepRan
  /\ last.read.last_state = "up"
  /\ last.now - last.read.last_hello_timestamp = 70
  /\ last.after = last.before

\* C8: a ping that read no row and whose INSERT went through creates the
\* row {up, currentTime, currentTime}, answers 201 and notifies the first
\* ping.
C8_FirstPingCreatesUp ==
  (PingRan /\ last.read = NULL) =>
    /\ last.before = NULL
    /\ last.after = ServerStatus(last.now, "up", last.now)
    /\ response = 201
    /\ waitUntil.kind = "firstPing"
    /\ waitUntil.server = last.server

\* C8 witness: a first ping at time 71.
C8_Witness ==
  /\ PingRan
  /\ last.read = NULL
  /\ last.now = 71
  /\ server_status[last.server].last_state = "up"
  /\ waitUntil.kind = "firstPing"

\* C9: a sweep that read no row for a configured server and whose INSERT
\* went through creates the row {down, 0, currentTime} and notifies that
\* the server has not reported.
C9_SweepOnboardsDown ==
  (SweepRan /\ last.read = NULL) =>
    /\ last.before = NULL
    /\ last.after = ServerStatus(0, "down", last.now)
    /\ waitUntil.kind = "notReported"
    /\ waitUntil.server = last.server

\* C9 witness: the silent server "b" is onboarded at time 72.
C9_Witness ==
  /\ SweepRan
  /\ last.read = NULL
  /\ last.server = "b"
  /\ last.now = 72
  /\ server_status["b"] = ServerStatus(0, "down", 72)
  /\ waitUntil.kind = "notReported"

\* C10: a ping that read an 'up' row sets last_hello_timestamp to its
\* currentTime, leaves last_state and last_state_change_timestamp as
\* stored, answers 200 and notifies nothing.
C10_RefreshKeepsStateChange ==
  (PingRan /\ last.read.last_state = "up") =>
    /\ last.after.last_hello_timestamp = last.now
    /\ last.after.last_state = last.before.last_state
    /\ last.after.last_state_change_timestamp = last.before.last_state_change_timestamp
    /\ response = 200
    /\ waitUntil = NoMessage

\* C10 witness: a refresh that moves last_hello_timestamp forward.
C10_Witness ==
  /\ PingRan
  /\ last.read.last_state = "up"
  /\ last.before.last_hello_timestamp < last.now
  /\ last.after.last_hello_timestamp = last.now
  /\ last.after.last_state_change_timestamp < last.now

\* C11: a sweep iteration that reads a row in state 'down' is a no-op,
\* whatever its currentTime and however old last_hello_timestamp is: the
\* stored row is left as it was, field for field, and nothing is handed to
\* ctx.waitUntil.
C11_SweepOverDownIsNoOp ==
  (SweepRan /\ last.read.last_state = "down") =>
    /\ last.after = last.before
    /\ server_status[last.server] = last.before
    /\ waitUntil = NoMessage
    /\ telegram = NoDelivery

\* A later pass went over a row that has been 'down' since an earlier second
\* and whose last_hello_timestamp is older than the threshold.
C11_Witness ==
  /\ SweepRan
  /\ last.read.last_state = "down"
  /\ last.before = last.read
  /\ last.now - last.read.last_hello_timestamp > alertThresholdSeconds
  /\ last.read.last_state_change_timestamp < last.now
  /\ last.after = last.before
  /\ waitUntil = NoMessage

\* C12: for every 'up' row the /status command reads, the report says
\* 'UP (Stale)' exactly when the sweep's down-detection predicate holds of that
\* row at the command's currentTime.
C12_StaleIffSweepDeclaresDown ==
  (status.statusMessages # <<>> /\ status.serverInfo # NULL /\ status.serverInfo.last_state = "up") =>
    LET line == status.statusMessages[Len(status.statusMessages)]
    IN (line.stateDetail = "UP (Stale)") <=> missedPings(status.serverInfo, status.currentTime)

\* The position of a configured name in SERVERS.
ServerIndex(serverName) == CHOOSE k \in 1..Len(SERVERS) : SERVERS[k] = serverName

\* The pass that just dealt with last.server stands at the SELECT of the
\* next configured server, with the currentTime it started with.
PassGoesOn ==
  ServerIndex(last.server) < Len(SERVERS) =>
    \E s \in Sweeps :
      /\ sweep[s].pc = "select"
      /\ sweep[s].i = ServerIndex(last.server) + 1
      /\ sweep[s].currentTime = last.now

\* C13: when a store statement of a sweep iteration throws, or the
\* notification of an iteration is not delivered, the pass is not aborted:
\* it goes on to the SELECT of the next configured server.
C13_SweepFailureIsolated ==
  /\ (last.by = "sweep" /\ last.threw) => PassGoesOn
  /\ (SweepRan /\ telegram = "failed") => PassGoesOn

\* A statement for the first server threw and the pass stands at the second.
C13_Witness ==
  /\ last.by = "sweep"
  /\ last.threw
  /\ last.server = SERVERS[1]
  /\ PassGoesOn

\* The only pass so far never stored a row for the first server, and has
\* just inserted and announced the second.
C13_RestEvaluated ==
  /\ passes = 1
  /\ server_status[SERVERS[1]] = NULL
  /\ \A p \in Pings : ping[p].pc = "idle"
  /\ SweepRan
  /\ last.server = SERVERS[2]
  /\ last.after = notFoundServerInfo(last.now)
  /\ waitUntil = NotReportedMessage(SERVERS[2])

\* C14: when the SELECT or the write of a ping throws, the caller gets 500,
\* the stored row of that server is what it was before the failing
\* statement, and nothing is handed to ctx.waitUntil.
C14_PingStoreFailure ==
  (last.by = "ping" /\ last.threw) =>
    /\ response = 500
    /\ last.after = last.before
    /\ server_status[last.server] = last.before
    /\ waitUntil = NoMessage
    /\ telegram = NoDelivery

\* A ping failed over a row that is 'down' since an earlier second: the
\* recovery it may have decided is discarded.
C14_Witness ==
  /\ last.by = "ping"
  /\ last.threw
  /\ response = 500
  /\ last.before # NULL
  /\ last.before.last_state = "down"
  /\ last.before.last_state_change_timestamp < last.now
  /\ server_status[last.server] = last.before

\* The request carries no 'Bearer <ACCESS_TOKEN>' Authorization header.
Unauthenticated(req) ==
  ~(req.authHeader.scheme = "Bearer" /\ req.authHeader.token = ACCESS_TOKEN)

\* The request's server_name is missing or not a configured name.
Disallowed(req) == req.server_name = "" \/ req.server_name \notin ServerNames

C15_UnauthenticatedReached ==
  /\ request # NoRequest
  /\ request.authHeader.scheme = "Bearer"
  /\ request.authHeader.token # ACCESS_TOKEN
  /\ response = 401

\* C16: when the message a step handed to ctx.waitUntil is not delivered,
\* the write that step made stands in the table with the state the message
\* announces, a ping still answers 201 for a created row and 200 otherwise,
\* and a sweep pass goes on to the next server.
C16_DeliveryFailureNonFatal ==
  telegram = "failed" =>
    /\ waitUntil # NoMessage
    /\ PingRan \/ SweepRan
    /\ last.after # NULL
    /\ server_status[last.server] = last.after
    /\ last.after.last_state = IF waitUntil.kind \in {"backUp", "firstPing"} THEN "up" ELSE "down"
    /\ PingRan => response = IF last.before = NULL THEN 201 ELSE 200
    /\ SweepRan => PassGoesOn

\* The 'back UP' message of a recovery was not delivered: the row is 'up'
\* with the ping's currentTime and the caller got 200.
C16_Witness ==
  /\ telegram = "failed"
  /\ PingRan
  /\ waitUntil.kind = "backUp"
  /\ last.before.last_state = "down"
  /\ server_status[last.server] = ServerStatus(last.now, "up", last.now)
  /\ response = 200

\* The 'is DOWN' message of the first server was not delivered and the pass
\* stands at the second.
C16_SweepReached ==
  /\ telegram = "failed"
  /\ SweepRan
  /\ waitUntil.kind = "down"
  /\ last.server = SERVERS[1]
  /\ server_status[last.server].last_state = "down"
  /\ PassGoesOn

\* No ping is running and none will be accepted any more.
PingsOver == requests = MaxRequests /\ \A p \in Pings : ping[p].pc = "idle"

\* C17 (for the servers that ping; the others never have an 'up' row):
\* a row that is 'up', silent for longer than the threshold and that
\* no ping will refresh is eventually marked 'down' by a step that hands the
\* 'is DOWN' message to ctx.waitUntil, provided passes keep being started
\* and their store statements succeed.
C17_SilenceEventuallyDetected ==
  \A n \in ServerNames \cap RequestNames :
    ( /\ server_status[n].last_state = "up"
      /\ PingsOver
      /\ clock - server_status[n].last_hello_timestamp > alertThresholdSeconds )
    ~> ( /\ server_status[n].last_state = "down"
         /\ waitUntil = DownMessage(n) )

\* With the pings over, a pass that started after the threshold had passed
\* marked the row 'down' and handed the message over.
C17_Witness ==
  /\ PingsOver
  /\ SweepRan
  /\ last.before.last_state = "up"
  /\ last.now - last.before.last_hello_timestamp > alertThresholdSeconds
  /\ server_status[last.server].last_state = "down"
  /\ waitUntil = DownMessage(last.server)

\* C18: a sweep iteration whose currentTime is the second in which a ping
\* created the row it reads (last_hello_timestamp = currentTime, 'up') leaves
\* the row alone and announces nothing, and its comparison of that age with
\* a threshold is false for every threshold from 0 on.
C18_FreshRowNotDeclaredDown ==
  (SweepRan /\ last.read = newServerInfo(last.now)) =>
    /\ last.after = last.before
    /\ waitUntil = NoMessage
    /\ \A threshold \in 0..MaxThreshold :
         ~overThreshold(last.now - last.read.last_hello_timestamp, threshold)

\* A pass that started in the second of the first ping went over the row
\* that ping created.
C18_Witness ==
  /\ SweepRan
  /\ last.read = newServerInfo(last.now)
  /\ last.before = last.read
  /\ server_status[last.server] = newServerInfo(last.now)

\* C19: a step answers 201 exactly when it is a ping that had found no row
\* and inserted one; a ping that completes over a row it had read, 'up' or
\* 'down', answers 200.
C19_CreatedIff201 ==
  /\ response = 201 <=>
       (PingRan /\ last.read = NULL /\ last.before = NULL /\ last.after = newServerInfo(last.now))
  /\ (PingRan /\ last.read # NULL) => response = 200

\* A ping that found no row inserted it and answered 201.
C19_Witness ==
  /\ PingRan
  /\ last.read = NULL
  /\ server_status[last.server] = newServerInfo(last.now)
  /\ response = 201

\* A refresh and a recovery answered 200.
C19_RefreshReached == PingRan /\ last.read.last_state = "up" /\ response = 200
C19_RecoveryReached == PingRan /\ last.read.last_state = "down" /\ response = 200

\* C20: a pass reads the clock once, when it starts; while it runs its
\* currentTime never changes, every iteration it completes is evaluated at
\* that value, and every last_state_change_timestamp it writes is that value.
C20_OneNowPerPass ==
  [][ \A s \in Sweeps :
        /\ (sweep[s].pc = "idle" /\ sweep'[s].pc # "idle") =>
             (sweep'[s].currentTime = clock /\ sweep'[s].i = 1)
        /\ (sweep[s].pc # "idle" /\ sweep'[s].pc # "idle") =>
             sweep'[s].currentTime = sweep[s].currentTime
        /\ (sweep[s].pc = "decide" /\ sweep'[s] # sweep[s]) =>
             /\ last'.by = "sweep"
             /\ last'.server = SERVERS[sweep[s].i]
             /\ last'.now = sweep[s].currentTime
             /\ last'.after # last'.before =>
                  last'.after.last_state_change_timestamp = sweep[s].currentTime
    ]_vars

\* The only pass so far inserted both servers with the second it started in,
\* the second one after the clock had moved on.
C20_Witness ==
  /\ passes = 1
  /\ SweepRan
  /\ last.server = SERVERS[2]
  /\ clock > last.now
  /\ server_status[SERVERS[1]] = notFoundServerInfo(last.now)
  /\ server_status[SERVERS[2]] = notFoundServerInfo(last.now)

\* The run just completed had decided a transition: a ping over no row or a
\* 'down' row, a sweep iteration over no row or an 'up' row past the threshold.
DecidedTransition ==
  \/ PingRan /\ (last.read = NULL \/ last.read.last_state = "down")
  \/ SweepRan /\ (last.read = NULL \/ missedPings(last.read, last.now))

\* C21: the message of a transition is handed to ctx.waitUntil in the step
\* that returns the ping's Response or moves the pass to the next server,
\* not later, and only by a step whose write is in the table: a step that
\* threw, or that wrote nothing, hands nothing over.
C21_DispatchWithinUnitAfterWrite ==
  /\ DecidedTransition => waitUntil # NoMessage
  /\ waitUntil # NoMessage =>
       /\ DecidedTransition
       /\ last.after # NULL
       /\ server_status[last.server] = last.after
       /\ waitUntil.server = last.server
       /\ telegram # NoDelivery
       /\ PingRan => response \in {200, 201}
       /\ SweepRan => PassGoesOn

\* A recovery: the row is 'up' in the table, the 'back UP' message is with
\* ctx.waitUntil and the Response of that step is 200.
C21_Witness ==
  /\ PingRan
  /\ last.read.last_state = "down"
  /\ waitUntil.kind = "backUp"
  /\ telegram = "sent"
  /\ server_status[last.server].last_state = "up"
  /\ response = 200

\* An 'up' row past the threshold: the row is 'down' in the table and the
\* 'is DOWN' message is with ctx.waitUntil as the pass moves on.
C21_SweepReached ==
  /\ SweepRan
  /\ last.server = SERVERS[1]
  /\ missedPings(last.read, last.now)
  /\ waitUntil = DownMessage(last.server)
  /\ telegram = "sent"
  /\ PassGoesOn

\* The decision table: the outcome for the row a ping read, and for the row
\* a sweep iteration read at its currentTime.
onPing(existing) ==
  IF existing = NULL THEN "created"
  ELSE IF existing.last_state = "down" THEN "recovered"
  ELSE "refreshed"

onSweepTick(existing, now) ==
  IF existing = NULL THEN "onboarded_down"
  ELSE IF existing.last_state = "up" /\ now - existing.last_hello_timestamp > alertThresholdSeconds
       THEN "declared_down"
  ELSE "no_op"

\* The outcomes whose effects (write, Response, message) the completed run
\* shows.
OutcomesTaken ==
  { o \in {"created", "recovered", "refreshed", "onboarded_down", "declared_down", "no_op"} :
      \/ /\ o = "created"
         /\ PingRan
         /\ last.before = NULL
         /\ last.after = newServerInfo(last.now)
         /\ response = 201
         /\ waitUntil = FirstPingMessage(last.server)
      \/ /\ o = "recovered"
         /\ PingRan
         /\ last.before # NULL
         /\ last.after = ServerStatus(last.now, "up", last.now)
         /\ response = 200
         /\ waitUntil.kind = "backUp"
      \/ /\ o = "refreshed"
         /\ PingRan
         /\ last.before # NULL
         /\ last.after = [last.before EXCEPT !.last_hello_timestamp = last.now]
         /\ response = 200
         /\ waitUntil = NoMessage
      \/ /\ o = "onboarded_down"
         /\ SweepRan
         /\ last.before = NULL
         /\ last.after = notFoundServerInfo(last.now)
         /\ waitUntil = NotReportedMessage(last.server)
      \/ /\ o = "declared_down"
         /\ SweepRan
         /\ last.before # NULL
         /\ last.after = [last.before EXCEPT !.last_state = "down",
                                            !.last_state_change_timestamp = last.now]
         /\ waitUntil = DownMessage(last.server)
      \/ /\ o = "no_op"
         /\ SweepRan
         /\ last.after = last.before
         /\ waitUntil = NoMessage }

\* C22: every row a handler reads is absent, 'up' or 'down', and every run
\* that completes shows the effects of exactly one outcome, the one the
\* decision table gives for the row it read (and, for a sweep iteration, for
\* the age of that row at its currentTime).
C22_DecisionTableTotalExclusive ==
  /\ \A p \in Pings :
       ping[p].pc = "write" =>
         (ping[p].serverInfo = NULL \/ ping[p].serverInfo.last_state \in {"up", "down"})
  /\ \A s \in Sweeps :
       sweep[s].pc = "decide" =>
         (sweep[s].serverInfo = NULL \/ sweep[s].serverInfo.last_state \in {"up", "down"})
  /\ PingRan => OutcomesTaken = {onPing(last.read)}
  /\ SweepRan => OutcomesTaken = {onSweepTick(last.read, last.now)}

\* A sweep iteration over an 'up' row past the threshold was declared_down.
C22_Witness ==
  /\ SweepRan
  /\ last.read.last_state = "up"
  /\ last.now - last.read.last_hello_timestamp > alertThresholdSeconds
  /\ OutcomesTaken = {"declared_down"}

\* The other cells of the table.
C22_CreatedReached == PingRan /\ last.read = NULL /\ OutcomesTaken = {"created"}
C22_RecoveredReached == PingRan /\ last.read.last_state = "down" /\ OutcomesTaken = {"recovered"}
C22_RefreshedReached == PingRan /\ last.read.last_state = "up" /\ OutcomesTaken = {"refreshed"}
C22_OnboardedReached == SweepRan /\ last.read = NULL /\ OutcomesTaken = {"onboarded_down"}
C22_NoOpOverDownReached == SweepRan /\ last.read.last_state = "down" /\ OutcomesTaken = {"no_op"}
C22_NoOpOverUpReached ==
  /\ SweepRan
  /\ last.read.last_state = "up"
  /\ last.now - last.read.last_hello_timestamp = alertThresholdSeconds
  /\ OutcomesTaken = {"no_op"}

\* C23: a pass that is at its first server gets past it (to the next server,
\* or to its end) even when the store never answers for that server.
C23_PassNotStalledByOneEntity ==
  \A s \in Sweeps :
    (sweep[s].pc # "idle" /\ sweep[s].i = 1) ~> (sweep[s].pc = "idle" \/ sweep[s].i > 1)

\* C24: every stored 'up' row has last_state_change_timestamp <=
\* last_hello_timestamp, and every stored 'down' row has
\* last_hello_timestamp <= last_state_change_timestamp.
C24_TimestampOrdering ==
  \A n \in ServerNames :
    /\ server_status[n].last_state = "up" =>
         server_status[n].last_state_change_timestamp <= server_status[n].last_hello_timestamp
    /\ server_status[n].last_state = "down" =>
         server_status[n].last_hello_timestamp <= server_status[n].last_state_change_timestamp

\* C25: a ping that was answered 200 or 201 leaves the stored row of its
\* server in state 'up' right after its write, also when a sweep pass
\* wrote 'down' between the ping's SELECT and its write.
C25_AcknowledgedPingLeavesUp ==
  (PingRan /\ response \in {200, 201}) =>
    /\ last.after # NULL
    /\ last.after.last_state = "up"
    /\ server_status[last.server].last_state = "up"

\* The message a step hands to ctx.waitUntil announces a new row.
CreationKinds == {"firstPing", "notReported"}

\* C26: one creation per server. A stored row is never removed; a step
\* hands a creation message ('first ping' or 'has not reported') for a
\* server to ctx.waitUntil exactly when it stores the first row of that
\* server, so one row and one creation message per server; and every ping
\* or sweep iteration that read no row and comes to its INSERT when a row
\* is stored fails without a message and without a write: the ping answers
\* 500, the pass goes on to the next server.
C26_SingleCreation ==
  [][ /\ IF server_status' = server_status
           THEN waitUntil'.kind \notin CreationKinds
           ELSE \A n \in ServerNames :
                  /\ server_status[n] # NULL => server_status'[n] # NULL
                  /\ (waitUntil'.kind \in CreationKinds /\ waitUntil'.server = n)
                       <=> (server_status[n] = NULL /\ server_status'[n] # NULL)
                  /\ (server_status[n] = NULL /\ server_status'[n] # NULL) =>
                       waitUntil'.kind = IF server_status'[n].last_state = "up"
                                           THEN "firstPing" ELSE "notReported"
      /\ \A p \in Pings :
           ( /\ ping[p].pc = "write"
             /\ ping[p].serverInfo = NULL
             /\ server_status[ping[p].serverName] # NULL
             /\ ping'[p] # ping[p] ) =>
               /\ response' = 500
               /\ waitUntil' = NoMessage
               /\ telegram' = NoDelivery
               /\ server_status' = server_status
               /\ ping'[p] = IdlePing
      /\ \A s \in Sweeps :
           ( /\ sweep[s].pc = "decide"
             /\ sweep[s].serverInfo = NULL
             /\ server_status[SERVERS[sweep[s].i]] # NULL
             /\ sweep'[s] # sweep[s] ) =>
               /\ waitUntil' = NoMessage
               /\ telegram' = NoDelivery
               /\ server_status' = server_status
               /\ sweep'[s] = NextServer(sweep[s])
    ]_vars

\* Two pings and a sweep iteration all read no row for one server; one
\* ping has just inserted the row and announced it, the other ping and the
\* pass stand before their INSERT.
C26_Witness ==
  /\ PingRan
  /\ last.before = NULL
  /\ server_status[last.server] = last.after
  /\ last.after # NULL
  /\ waitUntil = FirstPingMessage(last.server)
  /\ \E p \in Pings :
       /\ ping[p].pc = "write"
       /\ ping[p].serverInfo = NULL
       /\ ping[p].serverName = last.server
  /\ \E s \in Sweeps :
       /\ sweep[s].pc = "decide"
       /\ sweep[s].serverInfo = NULL
       /\ SERVERS[sweep[s].i] = last.server

\* A pass onboarded the server and ended; the only ping so far, accepted in
\* the second of that INSERT, has just been answered 500 and the row is the
\* one the pass stored.
C26_LoserReached ==
  /\ last.by = "ping"
  /\ last.threw
  /\ response = 500
  /\ waitUntil = NoMessage
  /\ requests = 1
  /\ \A s \in Sweeps : sweep[s].pc = "idle"
  /\ server_status[last.server] = notFoundServerInfo(last.now)

====
